---- MODULE Spec2Model ----
(***************************************************************************)
(* Reservation lifecycle and optimistic cache consistency of the library   *)
(* user application: the my-books view (MyBooksPage.tsx) and the book      *)
(* details view (BookDetails.tsx).                                         *)
(*                                                                         *)
(* Timestamps: the backend sends ISO date strings.  A timestamp field is   *)
(* modelled by the day it denotes (1, 2, ...); NULL is an absent field     *)
(* (undefined or null).  new Date(x).getTime() turns a day into epoch      *)
(* milliseconds and the number 0 into 0.                                   *)
(***************************************************************************)
EXTENDS Integers, Sequences, FiniteSets, TLC

\* ---------------------------------------------------------------- bounds
MaxTime ==
    2

\* days used in the timestamps of the reservation lists of the my-books view
MaxListTime ==
    1

MaxLen ==
    3

NumBooks ==
    2

\* mutations dispatched from the book details view in one behaviour
MaxDispatch ==
    3

\* unread notifications on the server, and in the cache, at the start
MaxInitUnread ==
    1

\* ------------------------------------------------------------- constants
NULL ==
    0

MsPerDay ==
    86400000

ReservationStatus ==
    {"PENDING_RESERVED", "COMPLETED", "CANCELLED", "EXPIRED", "RETURNED"}

\* "undefined" is the absent book status (book?.status of an unknown book)
BookStatus ==
    {"AVAILABLE", "RESERVED", "TAKEN", "IN_YOUR_HANDS", "RETURNED"}

BookStatusOrUndefined ==
    BookStatus \cup {"undefined"}

MyBookStatus ==
    {"TAKEN", "RESERVED", "RETURNED", "CANCELLED"}

TimeField ==
    {NULL} \cup (1 .. MaxTime)

BookIds ==
    1 .. NumBooks

\* ------------------------------------------------- MyBooksPage.tsx helpers
\* new Date(value).getTime()
DateGetTime(value) ==
    value * MsPerDay

\* mutant: takenAt ?? returnedAt ?? reservedAt ?? 0
getReservationTimestampTakenFirst(reservation) ==
    DateGetTime(IF reservation.takenAt # NULL THEN reservation.takenAt
                ELSE IF reservation.returnedAt # NULL THEN reservation.returnedAt
                ELSE IF reservation.reservedAt # NULL THEN reservation.reservedAt
                ELSE 0)

\* returnedAt ?? takenAt ?? reservedAt ?? 0
getReservationTimestamp(reservation) ==
    DateGetTime(IF reservation.returnedAt # NULL THEN reservation.returnedAt
                ELSE IF reservation.takenAt # NULL THEN reservation.takenAt
                ELSE IF reservation.reservedAt # NULL THEN reservation.reservedAt
                ELSE 0)

\* mutant: the first rule asks for returnedAt and status RETURNED together
getMyBookStatusReturnedNeedsBoth(reservation, bookStatus) ==
    LET isInHandsByBookStatus == bookStatus = "IN_YOUR_HANDS" \/ bookStatus = "TAKEN"
    IN  IF reservation.returnedAt # NULL /\ reservation.status = "RETURNED"
        THEN "RETURNED"
        ELSE IF reservation.status = "COMPLETED" /\ ~isInHandsByBookStatus
        THEN "RETURNED"
        ELSE IF reservation.takenAt # NULL \/ reservation.status = "COMPLETED"
        THEN "TAKEN"
        ELSE IF reservation.status = "CANCELLED" \/ reservation.status = "EXPIRED"
        THEN "CANCELLED"
        ELSE "RESERVED"

\* mutant: the taken rule is tried before the COMPLETED fallback
getMyBookStatusTakenBeforeFallback(reservation, bookStatus) ==
    LET isInHandsByBookStatus == bookStatus = "IN_YOUR_HANDS" \/ bookStatus = "TAKEN"
    IN  IF reservation.returnedAt # NULL \/ reservation.status = "RETURNED"
        THEN "RETURNED"
        ELSE IF reservation.takenAt # NULL \/ reservation.status = "COMPLETED"
        THEN "TAKEN"
        ELSE IF reservation.status = "COMPLETED" /\ ~isInHandsByBookStatus
        THEN "RETURNED"
        ELSE IF reservation.status = "CANCELLED" \/ reservation.status = "EXPIRED"
        THEN "CANCELLED"
        ELSE "RESERVED"

\* mutant: only IN_YOUR_HANDS counts as in hands
getMyBookStatusInHandsOnly(reservation, bookStatus) ==
    LET isInHandsByBookStatus == bookStatus = "IN_YOUR_HANDS"
    IN  IF reservation.returnedAt # NULL \/ reservation.status = "RETURNED"
        THEN "RETURNED"
        ELSE IF reservation.status = "COMPLETED" /\ ~isInHandsByBookStatus
        THEN "RETURNED"
        ELSE IF reservation.takenAt # NULL \/ reservation.status = "COMPLETED"
        THEN "TAKEN"
        ELSE IF reservation.status = "CANCELLED" \/ reservation.status = "EXPIRED"
        THEN "CANCELLED"
        ELSE "RESERVED"

getMyBookStatus(reservation, bookStatus) ==
    LET isInHandsByBookStatus == bookStatus = "IN_YOUR_HANDS" \/ bookStatus = "TAKEN"
    IN  IF reservation.returnedAt # NULL \/ reservation.status = "RETURNED"
        THEN "RETURNED"
        ELSE IF reservation.status = "COMPLETED" /\ ~isInHandsByBookStatus
        THEN "RETURNED"
        ELSE IF reservation.takenAt # NULL \/ reservation.status = "COMPLETED"
        THEN "TAKEN"
        ELSE IF reservation.status = "CANCELLED" \/ reservation.status = "EXPIRED"
        THEN "CANCELLED"
        ELSE "RESERVED"

\* mutant: RESERVED ranked above TAKEN
myBookStatusPriorityReservedOverTaken(status) ==
    CASE status = "RETURNED" -> 4
      [] status = "TAKEN" -> 2
      [] status = "RESERVED" -> 3
      [] status = "CANCELLED" -> 1

myBookStatusPriority(status) ==
    CASE status = "RETURNED" -> 4
      [] status = "TAKEN" -> 3
      [] status = "RESERVED" -> 2
      [] status = "CANCELLED" -> 1

\* mutant: a full tie always keeps the later list element
pickMoreRelevantReservationNextOnTie(current, next) ==
    LET currentTimestamp == getReservationTimestamp(current)
        nextTimestamp == getReservationTimestamp(next)
        currentPriority == myBookStatusPriority(getMyBookStatus(current, "undefined"))
        nextPriority == myBookStatusPriority(getMyBookStatus(next, "undefined"))
    IN  IF nextTimestamp > currentTimestamp THEN next
        ELSE IF nextTimestamp < currentTimestamp THEN current
        ELSE IF nextPriority > currentPriority THEN next
        ELSE IF nextPriority < currentPriority THEN current
        ELSE next

\* mutant: a full tie goes to the smaller id
pickMoreRelevantReservationSmallerId(current, next) ==
    LET currentTimestamp == getReservationTimestamp(current)
        nextTimestamp == getReservationTimestamp(next)
        currentPriority == myBookStatusPriority(getMyBookStatus(current, "undefined"))
        nextPriority == myBookStatusPriority(getMyBookStatus(next, "undefined"))
    IN  IF nextTimestamp > currentTimestamp THEN next
        ELSE IF nextTimestamp < currentTimestamp THEN current
        ELSE IF nextPriority > currentPriority THEN next
        ELSE IF nextPriority < currentPriority THEN current
        ELSE IF next.id <= current.id THEN next ELSE current

pickMoreRelevantReservation(current, next) ==
    LET currentTimestamp == getReservationTimestamp(current)
        nextTimestamp == getReservationTimestamp(next)
        currentPriority == myBookStatusPriority(getMyBookStatus(current, "undefined"))
        nextPriority == myBookStatusPriority(getMyBookStatus(next, "undefined"))
    IN  IF nextTimestamp > currentTimestamp THEN next
        ELSE IF nextTimestamp < currentTimestamp THEN current
        ELSE IF nextPriority > currentPriority THEN next
        ELSE IF nextPriority < currentPriority THEN current
        ELSE IF next.id >= current.id THEN next ELSE current

\* ------------------------------------------------------------------ state
VARIABLES
    reservations,             \* query ["reservations","my"]: list of Reservation
    books,                    \* query ["books"]: bookId -> book status or "undefined"
    latestReservationByBook,  \* the Map built by the ownedBooks memo
    ownedBooks,               \* result of the ownedBooks memo
    rendered,                 \* the memo has run on the current query data
    activeReservations,       \* query ["reservations","active"] of the book details view
    bookStatus,               \* book.status of query ["book", bookId], or "undefined"
    buttons,                  \* what the last render of BookDetails shows
    unread,                   \* query ["notifications","unread-count"]: cached count
    reservationError,         \* useState reservationError: "null" or a message
    phase,                    \* per mutation: status of the useMutation observer and
                              \* how far its run has come
    context,                  \* per mutation: value returned by onMutate
    variables,                \* per mutation: argument of mutate (book or reservation id)
    response,                 \* per mutation: the rejected call's error response
    outcome,                  \* per mutation: "success" or "error" once the call settled
    syncValue,                \* per mutation: count carried by the resync's response
    stale,                    \* the invalidated queries: their first key
    srvReservation,           \* backend: the user's reservation of the displayed book
    srvUnread,                \* backend: the user's unread notifications
    dispatched,               \* number of mutations dispatched so far
    solo,                     \* per mutation: dispatched on a cache equal to the
                              \* backend's count, no other mutation run since then
    orphans                   \* per kind: the mutation of an earlier mount of the
                              \* view that is still running, or NoOrphan

myBooksVars ==
    <<reservations, books, latestReservationByBook, ownedBooks, rendered>>

detailsVars ==
    <<activeReservations, bookStatus, buttons>>

counterVars ==
    <<unread, srvUnread>>

mutationVars ==
    <<phase, context, variables, response, outcome, syncValue, dispatched, solo, orphans>>

orchestratorVars ==
    <<counterVars, mutationVars, reservationError, stale, srvReservation>>

vars ==
    <<myBooksVars, detailsVars, orchestratorVars>>

\* the book shown by the book details view (route /books/:id)
DisplayedBook ==
    1

\* a Reservation without its id
ReservationData(times) ==
    [bookId : BookIds, status : ReservationStatus,
     reservedAt : times, takenAt : times, returnedAt : times]

withId(data, id) ==
    [id |-> id, bookId |-> data.bookId, status |-> data.status,
     reservedAt |-> data.reservedAt, takenAt |-> data.takenAt,
     returnedAt |-> data.returnedAt]

\* for (const reservation of reservations) { ... } of the ownedBooks memo:
\* the Map after the first n reservations; order is the Map's insertion order
\* mutant: the Map is keyed by the reservation's id
RECURSIVE latestFoldKeyedById(_, _)
latestFoldKeyedById(list, n) ==
    IF n = 0
    THEN [map |-> << >>, order |-> << >>]
    ELSE LET acc == latestFoldKeyedById(list, n - 1)
             reservation == list[n]
             key == reservation.id
         IN  IF key \notin DOMAIN acc.map
             THEN [map |-> [b \in DOMAIN acc.map \cup {key} |->
                              IF b = key THEN reservation ELSE acc.map[b]],
                   order |-> Append(acc.order, key)]
             ELSE [map |-> [acc.map EXCEPT
                              ![key] = pickMoreRelevantReservation(@, reservation)],
                   order |-> acc.order]

RECURSIVE latestFold(_, _)
latestFold(list, n) ==
    IF n = 0
    THEN [map |-> << >>, order |-> << >>]
    ELSE LET acc == latestFold(list, n - 1)
             reservation == list[n]
             bookId == reservation.bookId
         IN  IF bookId \notin DOMAIN acc.map
             THEN [map |-> [b \in DOMAIN acc.map \cup {bookId} |->
                              IF b = bookId THEN reservation ELSE acc.map[b]],
                   order |-> Append(acc.order, bookId)]
             ELSE [map |-> [acc.map EXCEPT
                              ![bookId] = pickMoreRelevantReservation(@, reservation)],
                   order |-> acc.order]

\* Array.prototype.sort with (left, right) => ts(right) - ts(left): stable,
\* descending by timestamp; insertion of x behind every element not smaller
RECURSIVE insertSorted(_, _)
insertSorted(sorted, x) ==
    IF sorted = << >>
    THEN <<x>>
    ELSE IF getReservationTimestamp(Head(sorted)) >= getReservationTimestamp(x)
    THEN <<Head(sorted)>> \o insertSorted(Tail(sorted), x)
    ELSE <<x>> \o sorted

RECURSIVE sortByTimestampDesc(_)
sortByTimestampDesc(list) ==
    IF list = << >>
    THEN << >>
    ELSE insertSorted(sortByTimestampDesc(SubSeq(list, 1, Len(list) - 1)),
                      list[Len(list)])

\* .map((reservation) => ({ id, status: getMyBookStatus(reservation, book?.status), reservation }))
toMyBook(reservation, bookStatusOf) ==
    [id |-> reservation.bookId,
     status |-> getMyBookStatus(reservation, bookStatusOf[reservation.bookId]),
     reservation |-> reservation]

\* the ownedBooks memo of MyBooksPage
ownedBooksMemo(list, bookStatusOf) ==
    IF Len(list) = 0
    THEN << >>
    ELSE LET latest == latestFold(list, Len(list))
             values == [k \in 1 .. Len(latest.order) |-> latest.map[latest.order[k]]]
             sorted == sortByTimestampDesc(values)
         IN  [k \in 1 .. Len(sorted) |-> toMyBook(sorted[k], bookStatusOf)]

\* one render of MyBooksPage on the current query data
RenderMyBooks ==
    /\ ~rendered
    /\ latestReservationByBook' = latestFold(reservations, Len(reservations)).map
    /\ ownedBooks' = ownedBooksMemo(reservations, books)
    /\ rendered' = TRUE
    /\ UNCHANGED <<reservations, books>>
    /\ UNCHANGED <<detailsVars, orchestratorVars>>

\* ---------------------------------------------------- BookDetails.tsx guards
\* activeReservations.find((item) => item.bookId === book.id): << >> is undefined
RECURSIVE findByBook(_, _)
findByBook(list, bookId) ==
    IF list = << >>
    THEN << >>
    ELSE IF Head(list).bookId = bookId
    THEN <<Head(list)>>
    ELSE findByBook(Tail(list), bookId)

\* const status = book.status ?? "AVAILABLE"
statusOrAvailable(status) ==
    IF status = "undefined" THEN "AVAILABLE" ELSE status

\* mutant: canReserve does not look at the current reservation
canReserveIgnoringReservation(status, reservation) ==
    status = "AVAILABLE"

canReserve(status, reservation) ==
    status = "AVAILABLE" /\ reservation = << >>

canTake(reservation) ==
    reservation # << >> /\ reservation[1].takenAt = NULL

\* mutant: canReturn does not look at takenAt
canReturnIgnoringTakenAt(reservation) ==
    reservation # << >> /\ reservation[1].returnedAt = NULL

canReturn(reservation) ==
    reservation # << >> /\ reservation[1].takenAt # NULL /\ reservation[1].returnedAt = NULL

canCancel(reservation) ==
    reservation # << >> /\ reservation[1].takenAt = NULL

\* one render of BookDetails: the reservation memo and the four guards
renderBookDetails(active, status) ==
    LET reservation == findByBook(active, DisplayedBook)
    IN  [mounted |-> TRUE,
         reservation |-> reservation,
         canReserve |-> canReserve(statusOrAvailable(status), reservation),
         canTake |-> canTake(reservation),
         canReturn |-> canReturn(reservation),
         canCancel |-> canCancel(reservation)]

\* the view before its first render
NotRendered ==
    [mounted |-> FALSE, reservation |-> << >>, canReserve |-> FALSE,
     canTake |-> FALSE, canReturn |-> FALSE, canCancel |-> FALSE]

RenderBookDetails ==
    /\ ~buttons.mounted
    /\ buttons' = renderBookDetails(activeReservations, bookStatus)
    /\ UNCHANGED <<activeReservations, bookStatus>>
    /\ UNCHANGED <<myBooksVars, orchestratorVars>>

\* ------------------------------------------- optimistic notification counter
\* entities/notification/model/optimisticUnread: read the cached count n, set
\* the cache to n + 1, return {previous: n}
optimisticIncrementUnread(count) ==
    [cache |-> count + 1, context |-> [previous |-> count]]

\* set the cache back to context.previous
rollbackOptimisticUnread(count, ctx) ==
    ctx.previous

\* --------------------------------------------------------------- the backend
\* all backend timestamps of one behaviour fall on one day
Today ==
    1

NewReservation ==
    [id |-> 1, bookId |-> DisplayedBook, status |-> "PENDING_RESERVED",
     reservedAt |-> Today, takenAt |-> NULL, returnedAt |-> NULL]

\* the reservation is still running: reserved or taken, not yet returned
isActive(reservation) ==
    reservation.status \in {"PENDING_RESERVED", "COMPLETED"} /\ reservation.returnedAt = NULL

\* getUserActiveReservations()
srvActiveReservations(reservation) ==
    IF reservation # << >> /\ isActive(reservation[1]) THEN reservation ELSE << >>

\* getBookById(bookId).status
srvBookStatus(reservation) ==
    IF reservation = << >> \/ ~isActive(reservation[1]) THEN "AVAILABLE"
    ELSE IF reservation[1].takenAt # NULL THEN "IN_YOUR_HANDS"
    ELSE "RESERVED"

\* the backend accepts the call in its present state
srvAccepts(kind, arg, reservation) ==
    LET active == srvActiveReservations(reservation)
    IN  CASE kind = "reserve" -> active = << >>
          [] kind = "take" ->
                active # << >> /\ active[1].id = arg /\ active[1].takenAt = NULL
          [] kind = "return" ->
                active # << >> /\ active[1].id = arg /\ active[1].takenAt # NULL
          [] kind = "cancel" ->
                active # << >> /\ active[1].id = arg /\ active[1].takenAt = NULL

\* reserveBook, takeReservation, returnReservation, cancelReservation on the
\* backend
srvApply(kind, reservation) ==
    CASE kind = "reserve" ->
            <<[NewReservation EXCEPT
                 !.id = IF reservation = << >> THEN 1 ELSE reservation[1].id + 1]>>
      [] kind = "take" ->
            <<[reservation[1] EXCEPT !.status = "COMPLETED", !.takenAt = Today]>>
      [] kind = "return" ->
            <<[reservation[1] EXCEPT !.status = "RETURNED", !.returnedAt = Today]>>
      [] kind = "cancel" ->
            <<[reservation[1] EXCEPT !.status = "CANCELLED"]>>

\* error responses of the backend: HTTP status (0: no response) and message
NoResponse ==
    [status |-> 0, message |-> << >>]

LimitMessage ==
    <<"Maximum", "number", "of", "reserved", "books", "reached">>

ServerErrors ==
    {[status |-> 409, message |-> <<"Book", "is", "reserved">>],
     [status |-> 400, message |-> LimitMessage],
     NoResponse}

\* messages a failed call may carry: none, the limit marker in two spellings,
\* a message with "maximum number" only, and another message
ErrorMessages ==
    {<< >>,
     LimitMessage,
     <<"MAXIMUM", "NUMBER", "of", "reserved", "books">>,
     <<"Maximum", "number", "of", "pages", "exceeded">>,
     <<"Book", "is", "reserved">>}

\* every error a failed call may end with: a response with a status and a
\* message, or no response at all
ErrorResponses ==
    [status : {400, 409, 500}, message : ErrorMessages] \cup {NoResponse}

\* ------------------------------------------- BookDetails.tsx error messages
\* rawMessage.toLocaleLowerCase("en-US"), word by word
toLocaleLowerCase(message) ==
    [i \in 1 .. Len(message) |->
        CASE message[i] = "Maximum" -> "maximum"
          [] message[i] = "MAXIMUM" -> "maximum"
          [] message[i] = "NUMBER" -> "number"
          [] message[i] = "Book" -> "book"
          [] OTHER -> message[i]]

\* String.prototype.includes on messages as word sequences
includes(message, part) ==
    \E i \in 0 .. Len(message) - Len(part) :
        \A j \in 1 .. Len(part) : message[i + j] = part[j]

resolveReservationErrorMessage(error) ==
    LET rawMessage == error.message
        normalized == toLocaleLowerCase(rawMessage)
    IN  IF \/ includes(normalized, <<"maximum", "number", "of", "reserved", "books">>)
           \/ includes(normalized, <<"maximum", "number">>)
        THEN <<"reservation.errors.limitReached">>
        ELSE IF error.status = 409
        THEN <<"reservation.errors.notAvailable">>
        ELSE IF error.status = 400 /\ rawMessage # << >>
        THEN rawMessage
        ELSE <<"reservation.errors.generic">>

\* useState<string | null>(null)
NoError ==
    << >>

\* ------------------------------------- BookDetails.tsx mutation orchestrator
Kinds ==
    {"reserve", "take", "return", "cancel"}

\* useMutation().isPending: from mutate() until onSettled has resolved
\* mutant: a mutation counts as pending only until its call settles
isPendingUntilCallSettles(kind) ==
    phase[kind] = "pending"

isPending(kind) ==
    phase[kind] \notin {"idle", "success", "error"}

\* mutant: the reserve button is disabled only while its mutation is pending
enabledReserveUnguarded(kind) ==
    /\ buttons.mounted
    /\ ~isPending(kind)
    /\ CASE kind = "reserve" -> TRUE
         [] kind = "take" -> buttons.canTake
         [] kind = "return" -> buttons.canReturn
         [] kind = "cancel" -> buttons.canCancel

\* disabled={!canX || xMutation.isPending} of the four action buttons
enabled(kind) ==
    /\ buttons.mounted
    /\ ~isPending(kind)
    /\ CASE kind = "reserve" -> buttons.canReserve
         [] kind = "take" -> buttons.canTake
         [] kind = "return" -> buttons.canReturn
         [] kind = "cancel" -> buttons.canCancel

\* mutate(book.id) or mutate(reservation.id) of the button's onClick
argument(kind) ==
    IF kind = "reserve" THEN DisplayedBook ELSE buttons.reservation[1].id

\* mutant: dispatching an action clears the displayed error
MutateClearingError(kind) ==
    /\ enabled(kind)
    /\ dispatched < MaxDispatch
    /\ LET hook == optimisticIncrementUnread(unread)
       IN  /\ unread' = hook.cache
           /\ context' = [context EXCEPT ![kind] = hook.context]
    /\ variables' = [variables EXCEPT ![kind] = argument(kind)]
    /\ phase' = [phase EXCEPT ![kind] = "pending"]
    /\ outcome' = [outcome EXCEPT ![kind] = "none"]
    /\ dispatched' = dispatched + 1
    /\ solo' = [k \in Kinds |->
                  IF k = kind
                  THEN unread = srvUnread /\ \A other \in Kinds : ~isPending(other)
                  ELSE FALSE]
    /\ reservationError' = NoError
    /\ UNCHANGED <<response, syncValue, srvUnread, stale, srvReservation>>
    /\ UNCHANGED <<myBooksVars, detailsVars, orphans>>

\* mutant: onMutate runs the hook and does not return its context
MutateDroppingContext(kind) ==
    /\ enabled(kind)
    /\ dispatched < MaxDispatch
    /\ unread' = optimisticIncrementUnread(unread).cache
    /\ variables' = [variables EXCEPT ![kind] = argument(kind)]
    /\ phase' = [phase EXCEPT ![kind] = "pending"]
    /\ outcome' = [outcome EXCEPT ![kind] = "none"]
    /\ dispatched' = dispatched + 1
    /\ solo' = [k \in Kinds |->
                  IF k = kind
                  THEN unread = srvUnread /\ \A other \in Kinds : ~isPending(other)
                  ELSE FALSE]
    /\ UNCHANGED <<context, response, syncValue, srvUnread, reservationError, stale,
                   srvReservation>>
    /\ UNCHANGED <<myBooksVars, detailsVars, orphans>>

\* onClick and onMutate: async () => optimisticIncrementUnread(queryClient),
\* then mutationFn sends the call
Mutate(kind) ==
    /\ enabled(kind)
    /\ dispatched < MaxDispatch
    /\ LET hook == optimisticIncrementUnread(unread)
       IN  /\ unread' = hook.cache
           /\ context' = [context EXCEPT ![kind] = hook.context]
    /\ variables' = [variables EXCEPT ![kind] = argument(kind)]
    /\ phase' = [phase EXCEPT ![kind] = "pending"]
    /\ outcome' = [outcome EXCEPT ![kind] = "none"]
    /\ dispatched' = dispatched + 1
    /\ solo' = [k \in Kinds |->
                  IF k = kind
                  THEN unread = srvUnread /\ \A other \in Kinds : ~isPending(other)
                  ELSE FALSE]
    /\ UNCHANGED <<response, syncValue, srvUnread, reservationError, stale, srvReservation>>
    /\ UNCHANGED <<myBooksVars, detailsVars, orphans>>

\* the backend performs the call; it may add a notification for the user
CallSucceeds(kind) ==
    /\ phase[kind] = "pending"
    /\ srvAccepts(kind, variables[kind], srvReservation)
    /\ srvReservation' = srvApply(kind, srvReservation)
    /\ \E notifications \in {0, 1} : srvUnread' = srvUnread + notifications
    /\ phase' = [phase EXCEPT ![kind] = "resolved"]
    /\ UNCHANGED <<unread, context, variables, response, outcome, syncValue, dispatched,
                   solo, reservationError, stale>>
    /\ UNCHANGED <<myBooksVars, detailsVars, orphans>>

\* mutant: a failed call is sent again (retry) instead of rejecting
CallFailsRetried(kind) ==
    /\ phase[kind] = "pending"
    /\ \E error \in ServerErrors :
         response' = [response EXCEPT ![kind] = error]
    /\ \E again \in BOOLEAN :
         phase' = [phase EXCEPT ![kind] = IF again THEN "pending" ELSE "rejected"]
    /\ UNCHANGED <<unread, srvUnread, context, variables, outcome, syncValue, dispatched,
                   solo, reservationError, stale, srvReservation>>
    /\ UNCHANGED <<myBooksVars, detailsVars, orphans>>

\* the backend rejects the call, or the call fails on the way
CallFails(kind) ==
    /\ phase[kind] = "pending"
    /\ \E error \in ServerErrors :
         response' = [response EXCEPT ![kind] = error]
    /\ phase' = [phase EXCEPT ![kind] = "rejected"]
    /\ UNCHANGED <<unread, srvUnread, context, variables, outcome, syncValue, dispatched,
                   solo, reservationError, stale, srvReservation>>
    /\ UNCHANGED <<myBooksVars, detailsVars, orphans>>

\* const [reservationError, setReservationError] = useState(null): React
\* ignores the setter of a component that is no longer mounted
setReservationError(value) ==
    IF buttons.mounted THEN value ELSE reservationError

\* mutant: the book's own detail query is not invalidated
invalidateReservationsWithoutBook(invalidated) ==
    invalidated \cup {"reservations", "books"}

\* invalidateQueries for ["reservations"], ["books"] and, if (book?.id),
\* ["book", book.id]
invalidateReservations(invalidated) ==
    invalidated \cup {"reservations", "books"}
        \cup (IF DisplayedBook # 0 THEN {"book"} ELSE {})

\* mutant: onError also invalidates the reservation and book queries
OnErrorInvalidating(kind) ==
    /\ phase[kind] = "rejected"
    /\ unread' = rollbackOptimisticUnread(unread, context[kind])
    /\ reservationError' = setReservationError(resolveReservationErrorMessage(response[kind]))
    /\ stale' = invalidateReservations(stale)
    /\ response' = [response EXCEPT ![kind] = NoResponse]
    /\ outcome' = [outcome EXCEPT ![kind] = "error"]
    /\ phase' = [phase EXCEPT ![kind] = "settling"]
    /\ UNCHANGED <<srvUnread, context, variables, syncValue, dispatched, solo,
                   srvReservation>>
    /\ UNCHANGED <<myBooksVars, detailsVars, orphans>>

\* onSuccess: setReservationError(null); invalidateReservations()
OnSuccess(kind) ==
    /\ phase[kind] = "resolved"
    /\ reservationError' = setReservationError(NoError)
    /\ stale' = invalidateReservations(stale)
    /\ outcome' = [outcome EXCEPT ![kind] = "success"]
    /\ phase' = [phase EXCEPT ![kind] = "settling"]
    /\ UNCHANGED <<unread, srvUnread, context, variables, response, syncValue, dispatched,
                   solo, srvReservation>>
    /\ UNCHANGED <<myBooksVars, detailsVars, orphans>>

\* mutant: onError surfaces the error and leaves the counter alone
OnErrorWithoutRollback(kind) ==
    /\ phase[kind] = "rejected"
    /\ reservationError' = setReservationError(resolveReservationErrorMessage(response[kind]))
    /\ response' = [response EXCEPT ![kind] = NoResponse]
    /\ outcome' = [outcome EXCEPT ![kind] = "error"]
    /\ phase' = [phase EXCEPT ![kind] = "settling"]
    /\ UNCHANGED <<unread, srvUnread, context, variables, syncValue, dispatched, solo,
                   stale, srvReservation>>
    /\ UNCHANGED <<myBooksVars, detailsVars, orphans>>

\* mutant: the callbacks are bound to the view and are dropped with it
OnErrorWhileMounted(kind) ==
    /\ buttons.mounted
    /\ phase[kind] = "rejected"
    /\ unread' = rollbackOptimisticUnread(unread, context[kind])
    /\ reservationError' = setReservationError(resolveReservationErrorMessage(response[kind]))
    /\ response' = [response EXCEPT ![kind] = NoResponse]
    /\ outcome' = [outcome EXCEPT ![kind] = "error"]
    /\ phase' = [phase EXCEPT ![kind] = "settling"]
    /\ UNCHANGED <<srvUnread, context, variables, syncValue, dispatched, solo, stale,
                   srvReservation>>
    /\ UNCHANGED <<myBooksVars, detailsVars, orphans>>

\* onError: rollbackOptimisticUnread(queryClient, context);
\* setReservationError(resolveReservationErrorMessage(error))
OnError(kind) ==
    /\ phase[kind] = "rejected"
    /\ unread' = rollbackOptimisticUnread(unread, context[kind])
    /\ reservationError' = setReservationError(resolveReservationErrorMessage(response[kind]))
    /\ response' = [response EXCEPT ![kind] = NoResponse]
    /\ outcome' = [outcome EXCEPT ![kind] = "error"]
    /\ phase' = [phase EXCEPT ![kind] = "settling"]
    /\ UNCHANGED <<srvUnread, context, variables, syncValue, dispatched, solo, stale,
                   srvReservation>>
    /\ UNCHANGED <<myBooksVars, detailsVars, orphans>>

\* mutant: onSettled resolves without the resync
OnSettledWithoutResync(kind) ==
    /\ phase[kind] = "settling"
    /\ phase' = [phase EXCEPT ![kind] = outcome[kind]]
    /\ UNCHANGED <<unread, srvUnread, context, variables, response, outcome, syncValue,
                   dispatched, solo, reservationError, stale, srvReservation>>
    /\ UNCHANGED <<myBooksVars, detailsVars, orphans>>

\* mutant: onSettled does not wait for the call's outcome callbacks
OnSettledWithoutAwait(kind) ==
    /\ phase[kind] \in {"rejected", "settling"}
    /\ phase' = [phase EXCEPT ![kind] = "syncing"]
    /\ outcome' = [outcome EXCEPT ![kind] = IF @ = "none" THEN "error" ELSE @]
    /\ UNCHANGED <<unread, srvUnread, context, variables, response, syncValue,
                   dispatched, solo, reservationError, stale, srvReservation>>
    /\ UNCHANGED <<myBooksVars, detailsVars, orphans>>

\* onSettled: await syncUnreadNotifications(queryClient) issues the read
OnSettled(kind) ==
    /\ phase[kind] = "settling"
    /\ phase' = [phase EXCEPT ![kind] = "syncing"]
    /\ UNCHANGED <<unread, srvUnread, context, variables, response, outcome, syncValue,
                   dispatched, solo, reservationError, stale, srvReservation>>
    /\ UNCHANGED <<myBooksVars, detailsVars, orphans>>

\* the backend answers the resync's read with its count
SyncRead(kind) ==
    /\ phase[kind] = "syncing"
    /\ syncValue' = [syncValue EXCEPT ![kind] = srvUnread]
    /\ phase' = [phase EXCEPT ![kind] = "synced"]
    /\ UNCHANGED <<unread, srvUnread, context, variables, response, outcome, dispatched,
                   solo, reservationError, stale, srvReservation>>
    /\ UNCHANGED <<myBooksVars, detailsVars, orphans>>

\* the resync's response arrives: the cache is overwritten, onSettled
\* resolves and the mutation is no longer pending
SyncDone(kind) ==
    /\ phase[kind] = "synced"
    /\ unread' = syncValue[kind]
    /\ syncValue' = [syncValue EXCEPT ![kind] = 0]
    /\ phase' = [phase EXCEPT ![kind] = outcome[kind]]
    /\ UNCHANGED <<srvUnread, context, variables, response, outcome, dispatched, solo,
                   reservationError, stale, srvReservation>>
    /\ UNCHANGED <<myBooksVars, detailsVars, orphans>>

\* the invalidated queries that BookDetails observes refetch and the view
\* renders on the new data
Refetch ==
    /\ buttons.mounted
    /\ stale # {}
    /\ stale' = {}
    /\ activeReservations' = srvActiveReservations(srvReservation)
    /\ bookStatus' = srvBookStatus(srvReservation)
    /\ buttons' = renderBookDetails(activeReservations', bookStatus')
    /\ UNCHANGED <<counterVars, mutationVars, reservationError, srvReservation>>
    /\ UNCHANGED myBooksVars

\* the view is torn down (navigation away from the book page): its render
\* output is gone and its query observers are removed. The component has no
\* cleanup for its mutations, and their callbacks are useMutation options,
\* which the mutation keeps; the mutations' variables are left alone.
Unmount ==
    /\ buttons.mounted
    /\ buttons' = NotRendered
    /\ UNCHANGED <<activeReservations, bookStatus>>
    /\ UNCHANGED <<myBooksVars, orchestratorVars>>

\* no mutation of an earlier mount
NoOrphan ==
    [phase |-> "none", context |-> [previous |-> 0], variables |-> 0,
     response |-> NoResponse, outcome |-> "none", syncValue |-> 0]

\* what a running mutation carries with it when its observer is gone
orphanOf(kind) ==
    [phase |-> phase[kind], context |-> context[kind], variables |-> variables[kind],
     response |-> response[kind], outcome |-> outcome[kind],
     syncValue |-> syncValue[kind]]

\* the view is left and opened again on the same book while mutations run:
\* the new component has new useMutation observers (idle, not pending) and a
\* new reservationError state, and renders on the cached queries, which it
\* may refetch on mount; the running mutations go on with the callbacks they
\* were started with
Remount ==
    /\ buttons.mounted
    /\ \A kind \in Kinds : isPending(kind) => orphans[kind] = NoOrphan
    /\ orphans' = [kind \in Kinds |->
                     IF isPending(kind) THEN orphanOf(kind) ELSE orphans[kind]]
    /\ phase' = [kind \in Kinds |-> "idle"]
    /\ context' = [kind \in Kinds |-> [previous |-> 0]]
    /\ variables' = [kind \in Kinds |-> 0]
    /\ response' = [kind \in Kinds |-> NoResponse]
    /\ outcome' = [kind \in Kinds |-> "none"]
    /\ syncValue' = [kind \in Kinds |-> 0]
    /\ solo' = [kind \in Kinds |-> FALSE]
    /\ reservationError' = NoError
    /\ buttons' = renderBookDetails(activeReservations, bookStatus)
    /\ stale' \in {stale, stale \cup {"reservations", "books", "book"}}
    /\ UNCHANGED <<unread, srvUnread, srvReservation, dispatched, activeReservations,
                   bookStatus>>
    /\ UNCHANGED myBooksVars

\* one step of a mutation of an earlier mount: the same call and callbacks
\* as CallSucceeds .. SyncDone; its setReservationError goes to the component
\* that is gone
OrphanStep(kind) ==
    /\ orphans[kind] # NoOrphan
    /\ LET orphan == orphans[kind]
           becomes(next) == orphans' = [orphans EXCEPT ![kind] = next]
       IN  \/ /\ orphan.phase = "pending"
              /\ srvAccepts(kind, orphan.variables, srvReservation)
              /\ srvReservation' = srvApply(kind, srvReservation)
              /\ \E notifications \in {0, 1} : srvUnread' = srvUnread + notifications
              /\ becomes([orphan EXCEPT !.phase = "resolved"])
              /\ UNCHANGED <<unread, stale>>
           \/ /\ orphan.phase = "pending"
              /\ \E error \in ServerErrors :
                   becomes([orphan EXCEPT !.phase = "rejected", !.response = error])
              /\ UNCHANGED <<unread, srvUnread, stale, srvReservation>>
           \/ /\ orphan.phase = "resolved"
              /\ stale' = invalidateReservations(stale)
              /\ becomes([orphan EXCEPT !.phase = "settling", !.outcome = "success"])
              /\ UNCHANGED <<unread, srvUnread, srvReservation>>
           \/ /\ orphan.phase = "rejected"
              /\ unread' = rollbackOptimisticUnread(unread, orphan.context)
              /\ becomes([orphan EXCEPT !.phase = "settling", !.outcome = "error",
                                        !.response = NoResponse])
              /\ UNCHANGED <<srvUnread, stale, srvReservation>>
           \/ /\ orphan.phase = "settling"
              /\ becomes([orphan EXCEPT !.phase = "syncing"])
              /\ UNCHANGED <<unread, srvUnread, stale, srvReservation>>
           \/ /\ orphan.phase = "syncing"
              /\ becomes([orphan EXCEPT !.phase = "synced", !.syncValue = srvUnread])
              /\ UNCHANGED <<unread, srvUnread, stale, srvReservation>>
           \/ /\ orphan.phase = "synced"
              /\ unread' = orphan.syncValue
              /\ orphans' = [orphans EXCEPT ![kind] = NoOrphan]
              /\ UNCHANGED <<srvUnread, stale, srvReservation>>
    /\ UNCHANGED <<phase, context, variables, response, outcome, syncValue, dispatched,
                   solo, reservationError>>
    /\ UNCHANGED <<myBooksVars, detailsVars>>

\* no mutation of an earlier mount is running
NoOrphans ==
    [k \in Kinds |-> NoOrphan]

\* no mutation was ever dispatched
NoOrchestrator ==
    /\ unread = 0
    /\ srvUnread = 0
    /\ reservationError = NoError
    /\ phase = [k \in Kinds |-> "idle"]
    /\ context = [k \in Kinds |-> [previous |-> 0]]
    /\ variables = [k \in Kinds |-> 0]
    /\ response = [k \in Kinds |-> NoResponse]
    /\ outcome = [k \in Kinds |-> "none"]
    /\ syncValue = [k \in Kinds |-> 0]
    /\ stale = {}
    /\ srvReservation = << >>
    /\ dispatched = 0
    /\ solo = [k \in Kinds |-> FALSE]
    /\ orphans = NoOrphans

\* reservations as the backend records them over a lifecycle: reservedAt
\* from creation on, takenAt after reservedAt, returnedAt after takenAt
Chronological(data) ==
    /\ data.takenAt # NULL => (data.reservedAt # NULL /\ data.reservedAt <= data.takenAt)
    /\ data.returnedAt # NULL => (data.takenAt # NULL /\ data.takenAt <= data.returnedAt)

LifecycleData ==
    {data \in ReservationData({NULL} \cup (1 .. MaxListTime)) : Chronological(data)}

NoBooks ==
    [b \in BookIds |-> "undefined"]

\* the my-books view is not mounted
NoMyBooks ==
    /\ reservations = << >>
    /\ books = NoBooks
    /\ latestReservationByBook = << >>
    /\ ownedBooks = << >>
    /\ rendered = FALSE

\* the book details view is not mounted
NoDetails ==
    /\ activeReservations = << >>
    /\ bookStatus = "undefined"
    /\ buttons = NotRendered

\* my-books view on reservation lists of up to MaxLen lifecycle records
InitMyBooks ==
    /\ \E n \in 0 .. MaxLen :
         \E data \in [1 .. n -> LifecycleData] :
            reservations = [i \in 1 .. n |-> withId(data[i], i)]
    /\ books = NoBooks
    /\ latestReservationByBook = << >>
    /\ ownedBooks = << >>
    /\ rendered = FALSE
    /\ NoDetails
    /\ NoOrchestrator

NextMyBooks ==
    RenderMyBooks

SpecMyBooks ==
    InitMyBooks /\ [][NextMyBooks]_vars

\* my-books view on a single reservation with arbitrary fields and every
\* book status
InitResolve ==
    /\ \E data \in ReservationData(TimeField) :
         reservations = <<withId(data, 1)>>
    /\ books \in [BookIds -> BookStatusOrUndefined]
    /\ latestReservationByBook = << >>
    /\ ownedBooks = << >>
    /\ rendered = FALSE
    /\ NoDetails
    /\ NoOrchestrator

SpecResolve ==
    InitResolve /\ [][NextMyBooks]_vars

\* my-books view on two reservations of one book with arbitrary fields, in
\* both orders of their ids
InitPair ==
    /\ \E first, second \in ReservationData(TimeField) :
         \E ids \in {<<1, 2>>, <<2, 1>>} :
            /\ first.bookId = second.bookId
            /\ reservations = <<withId(first, ids[1]), withId(second, ids[2])>>
    /\ books = NoBooks
    /\ latestReservationByBook = << >>
    /\ ownedBooks = << >>
    /\ rendered = FALSE
    /\ NoDetails
    /\ NoOrchestrator

SpecPair ==
    InitPair /\ [][NextMyBooks]_vars

\* two reservations of one book in the list, the book's status cached or not
InitPairOnBook ==
    /\ \E first, second \in ReservationData({NULL} \cup (1 .. MaxListTime)) :
         \E ids \in {<<1, 2>>, <<2, 1>>} :
            /\ first.bookId = second.bookId
            /\ reservations = <<withId(first, ids[1]), withId(second, ids[2])>>
            /\ \E status \in BookStatusOrUndefined :
                  books = [b \in BookIds |->
                             IF b = first.bookId THEN status ELSE "undefined"]
    /\ latestReservationByBook = << >>
    /\ ownedBooks = << >>
    /\ rendered = FALSE
    /\ NoDetails
    /\ NoOrchestrator

SpecPairOnBook ==
    InitPairOnBook /\ [][NextMyBooks]_vars

\* book details view on every cached list of up to two active reservations
\* and every book status
InitGuards ==
    /\ \E n \in 0 .. 2 :
         \E data \in [1 .. n -> ReservationData(TimeField)] :
            activeReservations = [i \in 1 .. n |-> withId(data[i], i)]
    /\ bookStatus \in BookStatusOrUndefined
    /\ buttons = NotRendered
    /\ NoMyBooks
    /\ NoOrchestrator

NextGuards ==
    RenderBookDetails

SpecGuards ==
    InitGuards /\ [][NextGuards]_vars

\* the backend's reservation when the button of a mutation was enabled
srvReservationFor(kind) ==
    CASE kind = "reserve" -> << >>
      [] kind \in {"take", "cancel"} -> <<NewReservation>>
      [] kind = "return" ->
            <<[NewReservation EXCEPT !.status = "COMPLETED", !.takenAt = Today]>>

\* the book details view with one mutation whose call has just failed with
\* any of the error responses
InitErrors ==
    /\ NoMyBooks
    /\ \E kind \in Kinds, error \in ErrorResponses :
         /\ srvReservation = srvReservationFor(kind)
         /\ phase = [k \in Kinds |-> IF k = kind THEN "rejected" ELSE "idle"]
         /\ response = [k \in Kinds |-> IF k = kind THEN error ELSE NoResponse]
         /\ variables = [k \in Kinds |->
                           IF k = kind /\ kind # "reserve" THEN NewReservation.id
                           ELSE IF k = kind THEN DisplayedBook
                           ELSE 0]
         /\ srvUnread \in 0 .. MaxInitUnread
         /\ \E previous \in 0 .. MaxInitUnread :
              /\ unread = optimisticIncrementUnread(previous).cache
              /\ context = [k \in Kinds |->
                              IF k = kind
                              THEN optimisticIncrementUnread(previous).context
                              ELSE [previous |-> 0]]
    /\ activeReservations = srvActiveReservations(srvReservation)
    /\ bookStatus = srvBookStatus(srvReservation)
    /\ buttons = renderBookDetails(activeReservations, bookStatus)
    /\ reservationError \in {NoError, <<"reservation.errors.generic">>}
    /\ outcome = [k \in Kinds |-> "none"]
    /\ syncValue = [k \in Kinds |-> 0]
    /\ stale = {}
    /\ dispatched = 1
    /\ solo = [k \in Kinds |-> FALSE]
    /\ orphans = NoOrphans

NextErrors ==
    \E kind \in Kinds :
        \/ OnError(kind)
        \/ OnSettled(kind)
        \/ SyncRead(kind)
        \/ SyncDone(kind)

SpecErrors ==
    InitErrors /\ [][NextErrors]_vars

\* the book details view of one book, mounted with fresh reservation and book
\* queries; the cached unread count may lag behind the backend's
Init ==
    /\ NoMyBooks
    /\ srvReservation \in {<< >>,
                           <<NewReservation>>,
                           <<[NewReservation EXCEPT !.status = "COMPLETED",
                                                    !.takenAt = Today]>>}
    /\ srvUnread \in 0 .. MaxInitUnread
    /\ unread \in 0 .. MaxInitUnread
    /\ activeReservations = srvActiveReservations(srvReservation)
    /\ bookStatus = srvBookStatus(srvReservation)
    /\ buttons = renderBookDetails(activeReservations, bookStatus)
    /\ reservationError = NoError
    /\ phase = [k \in Kinds |-> "idle"]
    /\ context = [k \in Kinds |-> [previous |-> 0]]
    /\ variables = [k \in Kinds |-> 0]
    /\ response = [k \in Kinds |-> NoResponse]
    /\ outcome = [k \in Kinds |-> "none"]
    /\ syncValue = [k \in Kinds |-> 0]
    /\ stale = {}
    /\ dispatched = 0
    /\ solo = [k \in Kinds |-> FALSE]
    /\ orphans = NoOrphans

Next ==
    \/ \E kind \in Kinds :
         \/ Mutate(kind)
         \/ CallSucceeds(kind)
         \/ CallFails(kind)
         \/ OnSuccess(kind)
         \/ OnError(kind)
         \/ OnSettled(kind)
         \/ SyncRead(kind)
         \/ SyncDone(kind)
    \/ Refetch

Spec ==
    Init /\ [][Next]_vars

\* ---- the orchestrator under its scheduling ----

MaxLiveDispatch == 2

NextLive ==
    Next /\ dispatched' <= MaxLiveDispatch

\* the transport settles every call (fulfilled or rejected), the event loop
\* runs every callback whose promise has settled, and the resync's read is
\* one more call of the same transport
\* (the steps of one mutation are enabled one at a time, so one condition
\* per mutation covers them)
settleStep(kind) ==
    \/ CallSucceeds(kind)
    \/ CallFails(kind)
    \/ OnSuccess(kind)
    \/ OnError(kind)
    \/ OnSettled(kind)
    \/ SyncRead(kind)
    \/ SyncDone(kind)

Scheduling ==
    \A kind \in Kinds : WF_vars(settleStep(kind))

SpecLive ==
    Init /\ [][NextLive]_vars /\ Scheduling

\* ---- the orchestrator on a view opened from a book card ----

\* the view renders on the card's book (stateBook, which has no status)
\* while the ["book", bookId] query has not answered yet
InitFromCard ==
    /\ NoMyBooks
    /\ srvReservation \in {<< >>,
                           <<NewReservation>>,
                           <<[NewReservation EXCEPT !.status = "COMPLETED",
                                                    !.takenAt = Today]>>}
    /\ srvUnread \in 0 .. MaxInitUnread
    /\ unread \in 0 .. MaxInitUnread
    /\ activeReservations = srvActiveReservations(srvReservation)
    /\ bookStatus = "undefined"
    /\ buttons = renderBookDetails(activeReservations, bookStatus)
    /\ reservationError = NoError
    /\ phase = [k \in Kinds |-> "idle"]
    /\ context = [k \in Kinds |-> [previous |-> 0]]
    /\ variables = [k \in Kinds |-> 0]
    /\ response = [k \in Kinds |-> NoResponse]
    /\ outcome = [k \in Kinds |-> "none"]
    /\ syncValue = [k \in Kinds |-> 0]
    /\ stale = {"book"}
    /\ dispatched = 0
    /\ solo = [k \in Kinds |-> FALSE]
    /\ orphans = NoOrphans

SpecFromCard ==
    (Init \/ InitFromCard) /\ [][NextLive]_vars

\* ---- the orchestrator with the view left and opened again ----

MaxRemountDispatch == 2

NextRemount ==
    /\ \/ Next
       \/ Remount
       \/ \E kind \in Kinds : OrphanStep(kind)
    /\ dispatched' <= MaxRemountDispatch

SpecRemount ==
    Init /\ [][NextRemount]_vars

\* ---- the orchestrator with the view torn down at any moment ----

MaxTeardownDispatch == 1

NextTeardown ==
    /\ Next \/ Unmount
    /\ dispatched' <= MaxTeardownDispatch

SpecTeardown ==
    Init /\ [][NextTeardown]_vars /\ Scheduling


\* ================================================================ properties
\* the reservation the my-books view selected for the book of list element i
selectedFor(i) ==
    latestReservationByBook[reservations[i].bookId]

permuted(list, p) ==
    [i \in 1 .. Len(list) |-> list[p[i]]]

\* C3: whatever the order in which the reservations of a list with pairwise
\* distinct ids arrive, the per-book reduction selects the same reservation
\* for every bookId.
OrderIndependence ==
    rendered =>
        \A p \in Permutations(1 .. Len(reservations)) :
            latestFold(permuted(reservations, p), Len(reservations)).map
                = latestReservationByBook

\* three reservations of one book of which the middle one is selected
OrderIndependenceWitness ==
    /\ rendered
    /\ Len(reservations) = 3
    /\ \A i \in 1 .. 3 : reservations[i].bookId = 1
    /\ latestReservationByBook[1].id = 2

\* C4: a reservation whose returnedAt is set is shown as RETURNED for every
\* book status, whatever its status and takenAt.
ReturnedDominance ==
    rendered =>
        \A k \in 1 .. Len(ownedBooks) :
            ownedBooks[k].reservation.returnedAt # NULL
                => ownedBooks[k].status = "RETURNED"

\* a CANCELLED, never taken reservation with returnedAt, book in hands
ReturnedDominanceWitness ==
    /\ rendered
    /\ Len(ownedBooks) = 1
    /\ ownedBooks[1].reservation.returnedAt # NULL
    /\ ownedBooks[1].reservation.takenAt = NULL
    /\ ownedBooks[1].reservation.status = "CANCELLED"
    /\ books[ownedBooks[1].id] = "IN_YOUR_HANDS"
    /\ ownedBooks[1].status = "RETURNED"

\* the five precedence rules of the resolver, each with the negation of the
\* rules before it
precedenceRules(reservation, status) ==
    LET returned == reservation.returnedAt # NULL \/ reservation.status = "RETURNED"
        inHand == status \in {"IN_YOUR_HANDS", "TAKEN"}
        completedNotInHand == reservation.status = "COMPLETED" /\ ~inHand
        taken == reservation.takenAt # NULL \/ reservation.status = "COMPLETED"
        cancelled == reservation.status \in {"CANCELLED", "EXPIRED"}
    IN  CASE returned -> "RETURNED"
          [] ~returned /\ completedNotInHand -> "RETURNED"
          [] ~returned /\ ~completedNotInHand /\ taken -> "TAKEN"
          [] ~returned /\ ~completedNotInHand /\ ~taken /\ cancelled -> "CANCELLED"
          [] ~returned /\ ~completedNotInHand /\ ~taken /\ ~cancelled -> "RESERVED"

\* C6: for every reservation status, returnedAt, takenAt and book status the
\* resolver yields a MyBookStatus, and it is the one the five precedence
\* rules give when applied in order.
ResolverReference ==
    rendered =>
        \A k \in 1 .. Len(ownedBooks) :
            /\ ownedBooks[k].status \in MyBookStatus
            /\ ownedBooks[k].status
                 = precedenceRules(ownedBooks[k].reservation, books[ownedBooks[k].id])

\* a COMPLETED reservation with takenAt whose book is not in hand: rule 2
\* decides before rule 3
ResolverReferenceWitness ==
    /\ rendered
    /\ Len(ownedBooks) = 1
    /\ ownedBooks[1].reservation.status = "COMPLETED"
    /\ ownedBooks[1].reservation.takenAt # NULL
    /\ ownedBooks[1].reservation.returnedAt = NULL
    /\ books[ownedBooks[1].id] = "AVAILABLE"
    /\ ownedBooks[1].status = "RETURNED"

\* C7: a COMPLETED reservation without returnedAt is shown as TAKEN when the
\* book status is IN_YOUR_HANDS or TAKEN and as RETURNED for every other book
\* status, the absent one included, also when takenAt is set.
LaggingCompleted ==
    rendered =>
        \A k \in 1 .. Len(ownedBooks) :
            (/\ ownedBooks[k].reservation.status = "COMPLETED"
             /\ ownedBooks[k].reservation.returnedAt = NULL)
                => ownedBooks[k].status
                     = IF books[ownedBooks[k].id] \in {"IN_YOUR_HANDS", "TAKEN"}
                       THEN "TAKEN"
                       ELSE "RETURNED"

\* a COMPLETED reservation of a book whose status is TAKEN, shown as TAKEN
LaggingCompletedWitness ==
    /\ rendered
    /\ Len(ownedBooks) = 1
    /\ ownedBooks[1].reservation.status = "COMPLETED"
    /\ ownedBooks[1].reservation.returnedAt = NULL
    /\ ownedBooks[1].reservation.takenAt = NULL
    /\ books[ownedBooks[1].id] = "TAKEN"
    /\ ownedBooks[1].status = "TAKEN"

\* the timestamp of a reservation as the picker's contract states it
relevanceTimestamp(reservation) ==
    IF reservation.returnedAt # NULL THEN reservation.returnedAt
    ELSE IF reservation.takenAt # NULL THEN reservation.takenAt
    ELSE IF reservation.reservedAt # NULL THEN reservation.reservedAt
    ELSE 0

\* the status priority as the picker's contract states it; the picker derives
\* the status of a reservation without a book status
relevancePriority(reservation) ==
    LET status == precedenceRules(reservation, "undefined")
    IN  IF status = "RETURNED" THEN 4
        ELSE IF status = "TAKEN" THEN 3
        ELSE IF status = "RESERVED" THEN 2
        ELSE 1

twoOfOneBook ==
    /\ rendered
    /\ Len(reservations) = 2
    /\ reservations[1].bookId = reservations[2].bookId

largerId ==
    IF reservations[1].id > reservations[2].id THEN reservations[1] ELSE reservations[2]

\* C8: of two reservations of one book with equal timestamps and equal
\* derived status, the one with the larger id is selected, whichever comes
\* first in the list.
TieBreakById ==
    (/\ twoOfOneBook
     /\ relevanceTimestamp(reservations[1]) = relevanceTimestamp(reservations[2])
     /\ precedenceRules(reservations[1], "undefined")
          = precedenceRules(reservations[2], "undefined"))
        => selectedFor(1) = largerId

\* a full tie in which the larger id comes first in the list and is selected
TieBreakByIdWitness ==
    /\ twoOfOneBook
    /\ relevanceTimestamp(reservations[1]) = relevanceTimestamp(reservations[2])
    /\ precedenceRules(reservations[1], "undefined") = "RESERVED"
    /\ precedenceRules(reservations[2], "undefined") = "RESERVED"
    /\ reservations[1].id = 2
    /\ selectedFor(1).id = 2

\* C9: of two reservations of one book with different timestamps, the one
\* with the strictly larger timestamp is selected, whatever their statuses,
\* ids and order.
LatestTimestampWins ==
    \A i, j \in {1, 2} :
        (/\ twoOfOneBook
         /\ relevanceTimestamp(reservations[i]) > relevanceTimestamp(reservations[j]))
            => selectedFor(1) = reservations[i]

\* the later reservation comes first, has the smaller id and the lower
\* status priority, and is selected
LatestTimestampWinsWitness ==
    /\ twoOfOneBook
    /\ relevanceTimestamp(reservations[1]) > relevanceTimestamp(reservations[2])
    /\ reservations[1].returnedAt = NULL
    /\ reservations[2].returnedAt # NULL
    /\ relevancePriority(reservations[1]) < relevancePriority(reservations[2])
    /\ reservations[1].id < reservations[2].id
    /\ selectedFor(1) = reservations[1]

\* C10: of two reservations of one book with equal timestamps and different
\* derived statuses, the one with the higher status priority (RETURNED 4,
\* TAKEN 3, RESERVED 2, CANCELLED 1) is selected, also when the other one has
\* the larger id.
StatusPriorityTieBreak ==
    \A i, j \in {1, 2} :
        (/\ twoOfOneBook
         /\ relevanceTimestamp(reservations[i]) = relevanceTimestamp(reservations[j])
         /\ relevancePriority(reservations[i]) > relevancePriority(reservations[j]))
            => selectedFor(1) = reservations[i]

\* TAKEN beats RESERVED at equal timestamps although RESERVED has the larger
\* id and comes last
StatusPriorityTieBreakWitness ==
    /\ twoOfOneBook
    /\ relevanceTimestamp(reservations[1]) = relevanceTimestamp(reservations[2])
    /\ precedenceRules(reservations[1], "undefined") = "TAKEN"
    /\ precedenceRules(reservations[2], "undefined") = "RESERVED"
    /\ reservations[1].id < reservations[2].id
    /\ selectedFor(1) = reservations[1]

\* every mutation has settled and run its callbacks to the end
allSettled ==
    \A kind \in Kinds : ~isPending(kind)

\* C1 as stated: when the resync of a failed mutation completes, after its
\* rollback, the cached unread count is the count the cache held right before
\* that mutation's pre-mutation hook.
CounterConvergenceOnFailure ==
    [][\A kind \in Kinds :
          (phase[kind] = "synced" /\ outcome[kind] = "error" /\ phase'[kind] = "error")
              => unread' = context[kind].previous]_vars

\* C1, amended: a failed mutation that was dispatched while no other mutation
\* was pending and the cached count equalled the backend's, with no other
\* mutation dispatched since, has the cached count at its pre-mutation value
\* from the end of its rollback on, and still when its resync has completed.
CounterConvergenceSolo ==
    \A kind \in Kinds :
        (/\ solo[kind]
         /\ outcome[kind] = "error"
         /\ phase[kind] \in {"settling", "syncing", "synced", "error"})
            => unread = context[kind].previous

\* a reserve that failed with a conflict: 1 -> 2, rollback to 1, resync reads 1
CounterConvergenceSoloWitness ==
    /\ solo["reserve"]
    /\ phase["reserve"] = "error"
    /\ reservationError = <<"reservation.errors.notAvailable">>
    /\ context["reserve"].previous = 1
    /\ srvUnread = 1
    /\ unread = 1

\* C2: when every mutation has settled and the last resync has completed, the
\* cached unread count is the backend's unread count, for every interleaving of
\* the mutations' hooks, rollbacks and resyncs.
ConvergenceUnderRaces ==
    (/\ allSettled
     /\ \E kind \in Kinds : phase[kind] \in {"success", "error"})
        => unread = srvUnread

\* C5: for every current reservation or none and every book status, at most
\* one of canReserve, canTake and canReturn holds.
GuardExclusivity ==
    buttons.mounted =>
        /\ ~(buttons.canReserve /\ buttons.canTake)
        /\ ~(buttons.canReserve /\ buttons.canReturn)
        /\ ~(buttons.canTake /\ buttons.canReturn)

\* canCancel together with canTake, on an AVAILABLE book
GuardExclusivityWitness ==
    /\ buttons.mounted
    /\ bookStatus = "AVAILABLE"
    /\ buttons.canTake
    /\ buttons.canCancel
    /\ ~buttons.canReserve
    /\ ~buttons.canReturn

\* C11: the my-books view holds exactly one entry for every bookId of the
\* reservation list and none for any other bookId, and the reservation of an
\* entry is one of the list's reservations of that book.
OneCurrentPerBook ==
    rendered =>
        LET bookIds == {reservations[i].bookId : i \in 1 .. Len(reservations)}
        IN  /\ {ownedBooks[k].id : k \in 1 .. Len(ownedBooks)} = bookIds
            /\ Len(ownedBooks) = Cardinality(bookIds)
            /\ \A k \in 1 .. Len(ownedBooks) :
                 \E i \in 1 .. Len(reservations) :
                    /\ reservations[i] = ownedBooks[k].reservation
                    /\ reservations[i].bookId = ownedBooks[k].id

\* three reservations, two of them of one book, give two entries
OneCurrentPerBookWitness ==
    /\ rendered
    /\ Len(reservations) = 3
    /\ reservations[1].bookId = reservations[3].bookId
    /\ reservations[2].bookId # reservations[1].bookId
    /\ Len(ownedBooks) = 2

\* the positions of the displayed book's reservations in the cached list
displayedPositions ==
    {i \in 1 .. Len(activeReservations) : activeReservations[i].bookId = DisplayedBook}

\* a current reservation exists
hasCurrent ==
    displayedPositions # {}

\* the current reservation: the first of the displayed book in the cached list
current ==
    activeReservations[CHOOSE i \in displayedPositions :
                          \A j \in displayedPositions : i <= j]

guardsAsDefined(reserveStatuses) ==
    /\ buttons.canReserve <=> (bookStatus \in reserveStatuses /\ ~hasCurrent)
    /\ buttons.canTake <=> (hasCurrent /\ current.takenAt = NULL)
    /\ buttons.canCancel <=> (hasCurrent /\ current.takenAt = NULL)
    /\ buttons.canReturn <=>
         (hasCurrent /\ current.takenAt # NULL /\ current.returnedAt = NULL)

\* C12 as stated: canReserve holds exactly when the book status is AVAILABLE
\* and there is no current reservation; canTake and canCancel exactly when
\* there is one without takenAt; canReturn exactly when there is one with
\* takenAt and without returnedAt.
GuardDefinitions ==
    buttons.mounted => guardsAsDefined({"AVAILABLE"})

\* C12, amended: as stated, with canReserve holding exactly when the book
\* status is AVAILABLE or absent and there is no current reservation.
GuardDefinitionsWithDefault ==
    buttons.mounted => guardsAsDefined({"AVAILABLE", "undefined"})

\* a reservation with only reservedAt on an AVAILABLE book: take and cancel,
\* no reserve
GuardDefinitionsWithDefaultWitness ==
    /\ buttons.mounted
    /\ bookStatus = "AVAILABLE"
    /\ Len(activeReservations) = 1
    /\ activeReservations[1].bookId = DisplayedBook
    /\ activeReservations[1].status = "PENDING_RESERVED"
    /\ activeReservations[1].reservedAt # NULL
    /\ activeReservations[1].takenAt = NULL
    /\ activeReservations[1].returnedAt = NULL
    /\ buttons.canTake
    /\ buttons.canCancel
    /\ ~buttons.canReserve
    /\ ~buttons.canReturn

\* the lower-cased message carries the marker of the reservation limit
hasLimitMarker(message) ==
    includes(toLocaleLowerCase(message),
             <<"maximum", "number", "of", "reserved", "books">>)

\* the error taxonomy in its precedence order
classified(error) ==
    IF hasLimitMarker(error.message) THEN <<"reservation.errors.limitReached">>
    ELSE IF error.status = 409 THEN <<"reservation.errors.notAvailable">>
    ELSE IF error.status = 400 /\ error.message # << >> THEN error.message
    ELSE <<"reservation.errors.generic">>

\* C13: the message shown for a failed mutation is the limit-reached message
\* if the server message carries the maximum-number-of-reserved-books marker,
\* otherwise the not-available message on status 409, otherwise the server
\* message on status 400 with a message, otherwise the generic message.
ErrorClassification ==
    [][\A kind \in Kinds :
          (phase[kind] = "rejected" /\ phase'[kind] = "settling")
              => reservationError' = classified(response[kind])]_vars

\* the step is one of the callbacks of a mutation whose call failed
failureStep(kind) ==
    /\ phase'[kind] # phase[kind]
    /\ \/ phase[kind] = "rejected"
       \/ outcome[kind] = "error" /\ phase[kind] \in {"settling", "syncing", "synced"}

\* C14: the callbacks of a failed mutation neither change nor invalidate the
\* cached reservations, books and book detail, so the guards after the
\* failure are the guards before it; the backend's reservation is untouched.
FailureLeavesCache ==
    [][\A kind \in Kinds :
          (failureStep(kind) \/ (phase[kind] = "pending" /\ phase'[kind] = "rejected"))
              => UNCHANGED <<activeReservations, bookStatus, buttons, stale,
                             srvReservation>>]_vars

\* a take that failed and ran to its end: an error is shown, nothing is
\* invalidated and take is still offered
FailureLeavesCacheWitness ==
    /\ phase["take"] = "error"
    /\ reservationError # NoError
    /\ stale = {}
    /\ buttons.canTake
    /\ buttons.canCancel

\* C15: onSuccess of a mutation clears the displayed error and invalidates the
\* reservations, the books and the book's detail; neither it nor onSettled
\* rolls the counter back.
SuccessEffects ==
    [][\A kind \in Kinds :
          /\ (phase[kind] = "resolved" /\ phase'[kind] # phase[kind])
                => /\ reservationError' = NoError
                   /\ {"reservations", "books", "book"} \subseteq stale'
                   /\ unread' = unread
          /\ (outcome[kind] = "success" /\ phase[kind] = "settling"
              /\ phase'[kind] # phase[kind])
                => unread' = unread]_vars

\* a take succeeded after an earlier mutation had shown an error
SuccessEffectsWitness ==
    /\ phase["take"] = "settling"
    /\ outcome["take"] = "success"
    /\ phase["cancel"] = "error"
    /\ reservationError = NoError
    /\ stale = {"reservations", "books", "book"}
    /\ unread = context["take"].previous + 1

\* C16: the resync of a mutation is issued only after the mutation's call has
\* settled and its outcome callback has run; for a failed call that callback
\* has put the counter back to the context's value.
RollbackBeforeResync ==
    [][\A kind \in Kinds :
          /\ (phase'[kind] = "syncing" /\ phase[kind] # "syncing")
                => (phase[kind] = "settling" /\ outcome[kind] \in {"success", "error"})
          /\ (phase[kind] = "rejected" /\ phase'[kind] # "rejected")
                => (/\ phase'[kind] = "settling"
                    /\ outcome'[kind] = "error"
                    /\ unread' = context[kind].previous)
          /\ (phase[kind] = "pending" /\ phase'[kind] # "pending")
                => phase'[kind] \in {"resolved", "rejected"}]_vars

\* the resync of a failed reserve is issued on the rolled back counter
RollbackBeforeResyncWitness ==
    /\ phase["reserve"] = "syncing"
    /\ outcome["reserve"] = "error"
    /\ context["reserve"].previous = 1
    /\ unread = 1

\* C17: every dispatched mutation, whether its call succeeds or fails, is
\* followed by a resync that the mutation issues, and it issues no second
\* one before it is dispatched again.
ResyncOnEverySettle ==
    /\ \A kind \in Kinds : (phase[kind] = "pending") ~> (phase[kind] = "syncing")
    /\ [][\A kind \in Kinds :
             /\ (phase[kind] \in {"resolved", "rejected"} /\ phase'[kind] # phase[kind])
                   => phase'[kind] = "settling"
             /\ (phase[kind] \in {"syncing", "synced", "success", "error"}
                   /\ phase'[kind] # phase[kind])
                   => phase'[kind] \in {"synced", "success", "error", "pending"}]_vars

\* a failed take and a successful cancel have both issued their resync
ResyncOnEverySettleWitness ==
    /\ phase["take"] = "syncing"
    /\ outcome["take"] = "error"
    /\ phase["cancel"] = "syncing"
    /\ outcome["cancel"] = "success"

\* C18: a mutation that is in flight when the view is torn down still settles:
\* its failure is rolled back, its resync is issued and the resync's answer,
\* not the optimistic value, is what the cache holds when it completes.
NoCancellationOnTeardown ==
    /\ \A kind \in Kinds :
          (~buttons.mounted /\ isPending(kind)) ~> (~buttons.mounted /\ ~isPending(kind))
    /\ [][\A kind \in Kinds :
             ~buttons.mounted =>
                /\ (phase[kind] = "rejected" /\ phase'[kind] # "rejected")
                      => (phase'[kind] = "settling" /\ unread' = context[kind].previous)
                /\ (phase[kind] \in {"resolved", "settling"} /\ phase'[kind] # phase[kind])
                      => phase'[kind] \in {"settling", "syncing"}
                /\ (phase[kind] = "synced" /\ phase'[kind] # "synced")
                      => (~isPending(kind)' /\ unread' = syncValue[kind])]_vars

\* a take failed and was settled after the teardown (no error was surfaced),
\* and the counter is back at the value before the hook
NoCancellationOnTeardownWitness ==
    /\ ~buttons.mounted
    /\ phase["take"] = "error"
    /\ reservationError = NoError
    /\ unread = context["take"].previous

\* C19: the step that dispatches an action replaces the cached count n by
\* n + 1 and captures {previous: n} before the backend has seen the call, and
\* a rollback with that context right after it gives n again.
OptimisticPreHook ==
    [][\A kind \in Kinds :
          (phase'[kind] = "pending" /\ phase[kind] # "pending")
             => /\ unread' = unread + 1
                /\ context'[kind] = [previous |-> unread]
                /\ rollbackOptimisticUnread(unread', context'[kind]) = unread
                /\ UNCHANGED <<srvUnread, srvReservation>>]_vars

\* the only dispatch so far, a cancel at count 1, failed and was rolled back
OptimisticPreHookWitness ==
    /\ dispatched = 1
    /\ phase["cancel"] = "settling"
    /\ outcome["cancel"] = "error"
    /\ context["cancel"] = [previous |-> 1]
    /\ unread = 1

\* C20: once the cancel of the current reservation has succeeded and settled,
\* none of take, return and cancel is enabled for that reservation.
CancelledIsTerminal ==
    (/\ phase["cancel"] = "success"
     /\ srvReservation # << >>
     /\ srvReservation[1].status = "CANCELLED"
     /\ buttons.reservation # << >>
     /\ buttons.reservation[1].id = srvReservation[1].id)
        => \A kind \in {"take", "return", "cancel"} : ~enabled(kind)

\* the guard of an action, stated on the cached data
guardOnCache(kind, reserveStatuses) ==
    CASE kind = "reserve" -> bookStatus \in reserveStatuses /\ ~hasCurrent
      [] kind = "take" -> hasCurrent /\ current.takenAt = NULL
      [] kind = "cancel" -> hasCurrent /\ current.takenAt = NULL
      [] kind = "return" ->
            hasCurrent /\ current.takenAt # NULL /\ current.returnedAt = NULL

\* this step dispatches the call of kind
dispatches(kind) ==
    phase'[kind] = "pending" /\ phase[kind] # "pending"

\* C21 as stated: a call is dispatched only where its guard holds on the
\* cached data, reserve only with the cached book status AVAILABLE.
LifecycleGating ==
    [][\A kind \in Kinds : dispatches(kind) => guardOnCache(kind, {"AVAILABLE"})]_vars

\* C21, amended: as stated, with reserve dispatched only where the cached
\* book status is AVAILABLE or absent.
LifecycleGatingWithDefault ==
    [][\A kind \in Kinds :
          dispatches(kind) => guardOnCache(kind, {"AVAILABLE", "undefined"})]_vars

\* a return in flight for a reservation the cache holds as taken, after a
\* take was dispatched and refetched
LifecycleGatingWithDefaultWitness ==
    /\ phase["return"] = "pending"
    /\ phase["take"] = "success"
    /\ hasCurrent
    /\ current.takenAt # NULL
    /\ variables["return"] = current.id

\* C22: a failed mutation shows the limit-reached message exactly when the
\* lower-cased server message contains "maximum number of reserved books".
LimitExceededMarker ==
    [][\A kind \in Kinds :
          (phase[kind] = "rejected" /\ phase'[kind] = "settling")
              => ((reservationError' = <<"reservation.errors.limitReached">>)
                     <=> hasLimitMarker(response[kind].message))]_vars

\* C23: a call is sent only by a user trigger on an enabled button, one call
\* per trigger; a failed call rejects the mutation, and a mutation whose call
\* failed sends nothing until it is triggered again.
NoAutomaticRetry ==
    [][\A kind \in Kinds :
          /\ dispatches(kind)
                => (/\ enabled(kind)
                    /\ phase[kind] \in {"idle", "success", "error"}
                    /\ dispatched' = dispatched + 1)
          /\ (phase[kind] = "pending" /\ response'[kind] # response[kind])
                => phase'[kind] = "rejected"
          /\ phase[kind] \in {"rejected", "settling", "syncing", "synced"}
                => phase'[kind] # "pending"]_vars

\* a take failed, settled with its error shown, and was triggered again
NoAutomaticRetryWitness ==
    /\ dispatched = 2
    /\ phase["take"] = "pending"
    /\ \A kind \in Kinds \ {"take"} : phase[kind] = "idle"
    /\ reservationError # NoError

\* the priority of the status the view surfaces for a reservation: the status
\* derived with the cached status of the reservation's book
surfacedPriority(reservation) ==
    LET status == precedenceRules(reservation, books[reservation.bookId])
    IN  IF status = "RETURNED" THEN 4
        ELSE IF status = "TAKEN" THEN 3
        ELSE IF status = "RESERVED" THEN 2
        ELSE 1

\* C24: a timestamp tie between two reservations of one book is broken by the
\* priority of the status the view surfaces for each of them (derived with
\* the book's actual status): the one with the higher such priority is
\* selected.
RankingBySurfacedStatus ==
    \A i, j \in {1, 2} :
        (/\ twoOfOneBook
         /\ relevanceTimestamp(reservations[i]) = relevanceTimestamp(reservations[j])
         /\ surfacedPriority(reservations[i]) > surfacedPriority(reservations[j]))
            => selectedFor(1) = reservations[i]

\* the cached active list in reverse order
reversedActive ==
    [i \in 1 .. Len(activeReservations) |->
        activeReservations[Len(activeReservations) + 1 - i]]

\* C25: with more than one reservation of the displayed book in the cached
\* active list, the reservation the guards and the mutations' ids are
\* computed from is the same for the list in reverse order, and it is the
\* one the relevance comparator selects.
OrderIndependentCurrent ==
    (buttons.mounted /\ Cardinality(displayedPositions) > 1)
        => /\ buttons.reservation
                = renderBookDetails(reversedActive, bookStatus).reservation
           /\ buttons.reservation
                = <<latestFold(activeReservations,
                               Len(activeReservations)).map[DisplayedBook]>>

\* C26: A's pre-hook ran, B's pre-hook ran on A's optimistic value and was the
\* last write to the cache, and B's call has not been settled by its
\* callbacks; the rollback of the failed A then takes away no more than A's
\* own increment: the cache keeps B's.
RollbackIsolation ==
    [][\A A, B \in Kinds :
          (/\ A # B
           /\ phase[A] = "rejected"
           /\ phase'[A] = "settling"
           /\ phase[B] \in {"pending", "resolved", "rejected"}
           /\ context[B].previous = context[A].previous + 1
           /\ unread = context[B].previous + 1)
              => unread' >= unread - 1]_vars

\* C27 as stated: while a mutation of a kind is running, its settle steps
\* included, the view cannot dispatch that kind.
NoDuplicatePending ==
    \A kind \in Kinds :
        (isPending(kind) \/ orphans[kind] # NoOrphan) => ~enabled(kind)

\* C27, amended: a mutation observer dispatches only when its previous
\* mutation has run all its settle steps; the exclusion is per mount of the
\* view.
NoDuplicatePendingPerMount ==
    [][\A kind \in Kinds :
          dispatches(kind) => phase[kind] \in {"idle", "success", "error"}]_vars

\* the take's resync is awaited: its guard holds and its button is disabled
NoDuplicatePendingPerMountWitness ==
    /\ phase["take"] = "syncing"
    /\ buttons.canTake
    /\ ~enabled("take")
    /\ orphans = NoOrphans

\* C28: a take and a cancel of one reservation are never running at the same
\* time, and while one of them is pending the other one's button is disabled.
TakeCancelExclusion ==
    /\ ~(/\ isPending("take")
         /\ isPending("cancel")
         /\ variables["take"] = variables["cancel"])
    /\ isPending("take") => ~enabled("cancel")
    /\ isPending("cancel") => ~enabled("take")

\* the backend has already performed the action on the reservation
alreadyDone(kind, id) ==
    /\ srvReservation # << >>
    /\ srvReservation[1].id = id
    /\ CASE kind = "take" -> srvReservation[1].takenAt # NULL
         [] kind = "return" -> srvReservation[1].returnedAt # NULL
         [] kind = "cancel" -> srvReservation[1].status = "CANCELLED"

\* C29: an action that has succeeded at the backend for a reservation is not
\* dispatched again for that reservation, also before the invalidated
\* queries have refetched.
NoRepeatOnStaleCache ==
    [][\A kind \in {"take", "return", "cancel"} :
          dispatches(kind) => ~alreadyDone(kind, variables'[kind])]_vars

\* this step is the outcome callback (onSuccess or onError) of kind
outcomeCallback(kind) ==
    phase[kind] \in {"resolved", "rejected"} /\ phase'[kind] = "settling"

\* C30: the one displayed error is written by the outcome callbacks only:
\* onSuccess of any mutation clears it, onError of any mutation sets it to
\* that mutation's classified message, and no other step, a dispatch
\* included, changes it; so it always shows the outcome whose callback ran
\* last.
ErrorFollowsLastOutcome ==
    [][/\ \A kind \in Kinds :
             outcomeCallback(kind)
                => reservationError'
                     = IF phase[kind] = "resolved"
                       THEN NoError
                       ELSE resolveReservationErrorMessage(response[kind])
       /\ (\A kind \in Kinds : ~outcomeCallback(kind))
             => reservationError' = reservationError]_vars

\* cancel succeeded and take failed, both have settled, and the take's
\* error is shown
ErrorFollowsLastOutcomeWitness ==
    /\ phase["cancel"] = "success"
    /\ phase["take"] = "error"
    /\ \A kind \in {"reserve", "return"} : phase[kind] = "idle"
    /\ reservationError = <<"reservation.errors.notAvailable">>

====
